---- MODULE Spec2Model ----
(***************************************************************************)
(* Playback-control and remote-navigation core of the TV video player:     *)
(*   src/src/hooks/usePlaybackState.ts  lines 1-72   usePlaybackState      *)
(*   src/src/hooks/usePlaybackState.ts  lines 74-486 VideoPlayer component *)
(*   src/src/hooks/useVideoHandler.ts                useVideoHandler       *)
(*                                                                         *)
(* Units.  Wall-clock time and timer delays are in milliseconds, as in the *)
(* code.  Playback positions (seconds in the code) are also kept in        *)
(* milliseconds, so that a position can advance with the clock: the code's *)
(* "position > 30" reads "position > 30 * 1000" here.                      *)
(*                                                                         *)
(* Handlers are written as operators from a program state s (a record of   *)
(* every mutable cell of the component) to the state after the handler, so *)
(* that a handler that calls other handlers is their composition.          *)
(***************************************************************************)
EXTENDS Integers, Sequences, FiniteSets, TLC

\* ------------------------------------------------------------------ bounds
\* The clock of a playback session moves in steps of Quantum up to MaxFine,
\* and from deadline to deadline up to MaxNow.
MaxFine == 400
MaxNow == 700
\* User events (remote keys, hardware back, retry) delivered in a session.
MaxKeys == 5
\* Status events an unconstrained primitive emits in a session.
MaxStatusEvents == 2
\* Status events of a source that loads, re-buffers and loads again.
MaxLifecycle == 4
\* Key presses on the controls of a session that meets errors.
MaxRecoveryKeys == 3
\* The clock of a session whose source stalls, in ms.
MaxStallNow == 36000
\* User events of a player that is closed and opened again.
MaxReopenKeys == 6
\* Key presses of a session that mixes both seek variants with play/pause.
MaxMixedKeys == 7
\* Key presses of a session watched across a progress tick.
MaxTickKeys == 5
\* The clock of a session watched across a progress tick, in ms.
MaxTickNow == 1100
\* Key presses of a session that seeks by steps while the source reloads.
MaxStepKeys == 5
\* Key presses of a session that steps forward and then plays.
MaxPlayKeys == 6
\* The clock of a session that steps forward and then plays, in ms.
MaxPlayNow == 2000
\* Key presses on the progress bar of a session that re-buffers after a
\* checkpoint.
MaxCheckpointKeys == 6
\* The clock of a session that re-buffers after a checkpoint, in ms.
MaxCheckpointNow == 800

\* Key presses of a session whose remote delivers events back-to-back.
MaxBurstKeys == 4

\* Key presses on the controls of a session watched for auto-hide.
MaxHideKeys == 3
\* The clock of a session watched for auto-hide, in ms.
MaxHideNow == 7000
\* Durations, in seconds, the primitive may report on readyToPlay besides 0.
MaxDurationSec == 40
\* The Position Store clock (SpecStore) ends at MaxStoreDays days.
MaxStoreDays == 1
\* The number of update(partial) calls of a reducer run (SpecReducer).
MaxUpdates == 3

\* ------------------------------------------------------- program constants
SEEK_DEBOUNCE == 300
SEEK_PAUSE_DEBOUNCE == 100
RESUME_DELAY == 300
SAVED_POSITION_DELAY == 200
PROGRESS_INTERVAL == 1000
HIDE_CONTROLS_DELAY == 3000
LOADING_TIMEOUT == 30000
\* The grain at which the clock is watched: the shortest delay of the code.
Quantum == SEEK_PAUSE_DEBOUNCE
SeekStep == 10 * 1000
SaveThreshold == 30 * 1000
DAY == 24 * 60 * 60 * 1000

Undefined == "<undefined>"

Max(a, b) == IF a >= b THEN a ELSE b
Min(a, b) == IF a <= b THEN a ELSE b

\* ------------------------------------------------- Playback State Reducer
Fields == {"isPlaying", "currentTime", "duration", "isLoading", "error"}

\* useState initial value; the absent error key reads as undefined.
InitialPlaybackState ==
  [isPlaying |-> FALSE, currentTime |-> 0, duration |-> 0,
   isLoading |-> TRUE, error |-> Undefined]

\* Mutant: the updates replace the state instead of being merged into it.
MergeReplacing(prev, updates) ==
  [f \in Fields |->
     IF f \in DOMAIN updates THEN updates[f] ELSE InitialPlaybackState[f]]

\* (prev) => ({ ...prev, ...updates })
Merge(prev, updates) ==
  [f \in Fields |-> IF f \in DOMAIN updates THEN updates[f] ELSE prev[f]]

\* --------------------------------------------------- Playback Position Store
NoEntry == [videoId |-> "", position |-> 0, timestamp |-> 0]

\* Mutant: the threshold admits the boundary position.
savePlaybackPositionAtThreshold(positions, videoId, position, clock) ==
  IF position >= SaveThreshold
    THEN [positions EXCEPT ![videoId] =
            [videoId |-> videoId, position |-> position, timestamp |-> clock]]
    ELSE positions

\* Mutant: overwriting an entry keeps the time it was first saved.
savePlaybackPositionKeepingTimestamp(positions, videoId, position, clock) ==
  IF position > SaveThreshold
    THEN [positions EXCEPT ![videoId] =
            [videoId |-> videoId, position |-> position,
             timestamp |-> IF @ # NoEntry THEN @.timestamp ELSE clock]]
    ELSE positions

savePlaybackPosition(positions, videoId, position, clock) ==
  IF position > SaveThreshold
    THEN [positions EXCEPT ![videoId] =
            [videoId |-> videoId, position |-> position, timestamp |-> clock]]
    ELSE positions

clearPlaybackPosition(positions, videoId) ==
  [positions EXCEPT ![videoId] = NoEntry]

\* Mutant: an entry of exactly 24 hours still counts as recent.
getSavedPositionInclusive(positions, videoId, clock) ==
  LET savedPosition == positions[videoId]
  IN IF savedPosition # NoEntry
       THEN IF clock - savedPosition.timestamp <= DAY
              THEN savedPosition.position ELSE 0
       ELSE 0

getSavedPosition(positions, videoId, clock) ==
  LET savedPosition == positions[videoId]
  IN IF savedPosition # NoEntry
       THEN IF clock - savedPosition.timestamp < DAY
              THEN savedPosition.position ELSE 0
       ELSE 0

\* ------------------------------------------------------ remote navigation
FocusTargets == {"back", "seekBackward", "playPause", "seekForward", "progress"}
controls == <<"back", "seekBackward", "playPause", "seekForward">>

\* Array.prototype.indexOf on the 0-based control list: -1 when absent.
indexOf(focus) ==
  IF \E i \in 1..Len(controls) : controls[i] = focus
    THEN (CHOOSE i \in 1..Len(controls) : controls[i] = focus) - 1
    ELSE -1

\* Mutant: the left move is not clamped at the start of the list but wraps.
focusLeftWrapping(focus) ==
  LET currentIndex == indexOf(focus)
      newIndex == IF currentIndex - 1 < 0 THEN Len(controls) - 1
                  ELSE currentIndex - 1
  IN controls[newIndex + 1]

focusLeft(focus) ==
  LET currentIndex == indexOf(focus)
      newIndex == Max(0, currentIndex - 1)
  IN controls[newIndex + 1]

\* Mutant: the right move is not clamped at the end of the list and leaves it.
focusRightLeavingTheList(focus) ==
  LET currentIndex == indexOf(focus)
      newIndex == currentIndex + 1
  IN IF newIndex > Len(controls) - 1 THEN "none" ELSE controls[newIndex + 1]

focusRight(focus) ==
  LET currentIndex == indexOf(focus)
      newIndex == Min(Len(controls) - 1, currentIndex + 1)
  IN controls[newIndex + 1]

\* Mutant: up always lands on the play/pause control.
focusUpToPlayPause(focus) == "playPause"

focusUp(focus) == IF focus = "progress" THEN "playPause" ELSE "back"

focusDown(focus) == IF focus # "progress" THEN "progress" ELSE focus

\* ------------------------------------------------------------------ state
VARIABLES
  props,                 \* { videoId, url, hlsUrl, isTV } of the session
  session,               \* "mounting" (rendered once, effects pending),
                         \* "open", "closing" (onClose called), "closed"
  playbackState,         \* useState<PlaybackState>, the latest queued value
  playbackPositions,     \* useRef(new Map()) of the hook instance
  player,                \* the playback primitive
  timers,                \* pending setTimeout/setInterval callbacks
  seekTimeout,           \* useRef: handle of the debounced seek
  loadingTimeout,        \* useRef: handle of the load-timeout
  hideControlsTimeout,   \* useRef: handle of the auto-hide
  wasPlayingBeforeSeek,  \* useRef<boolean>
  focusedControl,        \* useState, the latest queued value
  showControls,          \* useState
  rendered,              \* what the closures of the last commit captured
  dirty,                 \* a state update awaits React's commit
  faulty,                \* the primitive throws on every access
  uncaught,              \* a fault left the last handler or timer callback
  now,                   \* Date.now()
  issued,                \* commands the last step issued to the primitive
  lastAct,               \* the last step: its operation and input
  written,               \* reducer run: per field, the last value supplied
  trail,                 \* store run: the last two store operations
  listening,             \* the statusChange subscription is active
  request,               \* the last seek request: its handler, position, time,
                         \* its rank in the burst, player.playing at the
                         \* burst's first request
  delivered,             \* user events delivered / calls made so far
  statusEvents           \* status events emitted so far

vars ==
  <<props, session, playbackState, playbackPositions, player, timers,
    seekTimeout, loadingTimeout, hideControlsTimeout, wasPlayingBeforeSeek,
    focusedControl, showControls, rendered, dirty, faulty, uncaught, now,
    issued, lastAct, written, trail, listening, request, delivered,
    statusEvents>>

VideoIds == {"v1", "v2"}
Statuses == {"idle", "loading", "readyToPlay", "error"}

\* A pending timer: the callback's kind, its due time, the position its
\* closure captured (0 where it captures none).
Timer(kind, at, position) == [kind |-> kind, at |-> at, position |-> position]
\* A ref holding no live handle.  A handle whose timer fired or was cleared is
\* reset to NoTimer: clearTimeout of such a handle does nothing in the code.
NoTimer == Timer("none", 0, 0)

Command(op, position, source) ==
  [op |-> op, position |-> position, source |-> source]

\* The program state a handler runs on.
Cur ==
  [props |-> props, session |-> session, ps |-> playbackState,
   positions |-> playbackPositions, player |-> player, timers |-> timers,
   seekTimeout |-> seekTimeout, loadingTimeout |-> loadingTimeout,
   hideControlsTimeout |-> hideControlsTimeout,
   wasPlayingBeforeSeek |-> wasPlayingBeforeSeek,
   focusedControl |-> focusedControl, showControls |-> showControls,
   rendered |-> rendered, dirty |-> dirty, faulty |-> faulty,
   uncaught |-> FALSE, now |-> now, issued |-> <<>>,
   listening |-> listening, request |-> request]

\* The step whose result is program state s.
Become(s) ==
  /\ props' = s.props
  /\ session' = s.session
  /\ playbackState' = s.ps
  /\ playbackPositions' = s.positions
  /\ player' = s.player
  /\ timers' = s.timers
  /\ seekTimeout' = s.seekTimeout
  /\ loadingTimeout' = s.loadingTimeout
  /\ hideControlsTimeout' = s.hideControlsTimeout
  /\ wasPlayingBeforeSeek' = s.wasPlayingBeforeSeek
  /\ focusedControl' = s.focusedControl
  /\ showControls' = s.showControls
  /\ rendered' = s.rendered
  /\ dirty' = s.dirty
  /\ faulty' = s.faulty
  /\ uncaught' = s.uncaught
  /\ now' = s.now
  /\ issued' = s.issued
  /\ listening' = s.listening
  /\ request' = s.request

\* ------------------------------------------------------- React state cells
\* setPlaybackState((prev) => ({ ...prev, ...updates })): a new object each
\* time, so a render is always scheduled; ignored once unmounted.
updatePlaybackState(s, updates) ==
  IF s.session = "closed" THEN s
  ELSE [s EXCEPT !.ps = Merge(s.ps, updates), !.dirty = TRUE]

setFocusedControl(s, focus) ==
  IF s.session = "closed" \/ s.focusedControl = focus THEN s
  ELSE [s EXCEPT !.focusedControl = focus, !.dirty = TRUE]

setShowControls(s, visible) ==
  IF s.session = "closed" \/ s.showControls = visible THEN s
  ELSE [s EXCEPT !.showControls = visible, !.dirty = TRUE]

\* --------------------------------------------------------------- timers
setTimeout(s, kind, delay, position) ==
  [s EXCEPT !.timers = @ \cup {Timer(kind, s.now + delay, position)}]

Forget(ref, handle) == IF ref = handle THEN NoTimer ELSE ref

clearTimeout(s, handle) ==
  [s EXCEPT !.timers = @ \ {handle},
            !.seekTimeout = Forget(@, handle),
            !.loadingTimeout = Forget(@, handle),
            !.hideControlsTimeout = Forget(@, handle)]

\* ------------------------------------------------------------- primitive
\* play() and pause() are applied by the native player after the calling
\* handler has returned: player.playing read inside the handler that issued
\* the command still gives the value from before it; a later handler reads
\* the new one.
\* Every access throws while the primitive is faulty, and once the session is
\* closed (useVideoPlayer releases the player on unmount).
Throws(s) == s.faulty \/ s.session = "closed"

playerPause(s) ==
  [s EXCEPT !.player.playing = FALSE,
            !.issued = Append(@, Command("pause", 0, ""))]

playerPlay(s) ==
  [s EXCEPT !.player.playing = TRUE,
            !.issued = Append(@, Command("play", 0, ""))]

playerSetCurrentTime(s, position) ==
  [s EXCEPT !.player.currentTime = position,
            !.issued = Append(@, Command("setCurrentTime", position, ""))]

playerReplace(s, source) ==
  [s EXCEPT !.player.source = source,
            !.player.currentTime = 0,
            !.player.duration = 0,
            !.issued = Append(@, Command("replace", 0, source))]

\* const videoSource = Platform.isTV ? hlsUrl : url
videoSource(p) == IF p.isTV THEN p.hlsUrl ELSE p.url

\* ------------------------------------------------- useVideoHandler: handlers
Raise(s) == [s EXCEPT !.uncaught = TRUE]

\* Records a seek request on entry to its handler.  A request continues a
\* burst when the commit of the previous request of that handler is still
\* pending.
NoRequest ==
  [kind |-> "none", position |-> 0, at |-> 0, n |-> 0, firstPlaying |-> FALSE]

NoteRequest(s, kind, position) ==
  LET continues == s.request.kind = kind /\ \E t \in s.timers : t.kind = kind
  IN [s EXCEPT !.request =
        [kind |-> kind, position |-> position, at |-> s.now,
         n |-> IF continues THEN @.n + 1 ELSE 1,
         firstPlaying |-> IF continues THEN @.firstPlaying
                          ELSE s.player.playing]]

\* Mutant: player.playing already gives the new value when isPlaying is
\* computed.
handlePlayPauseReadingBack(s) ==
  IF Throws(s)
    THEN updatePlaybackState(s, [error |-> "Failed to control video playback"])
    ELSE LET s1 == IF s.player.playing THEN playerPause(s) ELSE playerPlay(s)
         IN updatePlaybackState(s1, [isPlaying |-> ~s1.player.playing])

\* Mutant: the catch branch also records that playback stopped.
handlePlayPauseStoppingOnFault(s) ==
  IF Throws(s)
    THEN updatePlaybackState(s, [error |-> "Failed to control video playback",
                                 isPlaying |-> FALSE])
    ELSE LET s1 == IF s.player.playing THEN playerPause(s) ELSE playerPlay(s)
         IN updatePlaybackState(s1, [isPlaying |-> ~s.player.playing])

handlePlayPause(s) ==
  IF Throws(s)
    THEN updatePlaybackState(s, [error |-> "Failed to control video playback"])
    ELSE LET s1 == IF s.player.playing THEN playerPause(s) ELSE playerPlay(s)
         IN updatePlaybackState(s1, [isPlaying |-> ~s.player.playing])

\* The callback of handleSeek's setTimeout.
seekCommit(s, position) ==
  IF Throws(s)
    THEN updatePlaybackState(s, [error |-> "Failed to seek to position"])
    ELSE LET s1 == playerSetCurrentTime(s, position)
         IN [s1 EXCEPT !.positions =
               savePlaybackPosition(@, s.props.videoId, position, s.now)]

\* Mutant: the pending commit is not cancelled before the next is scheduled.
handleSeekKeepingPending(s0, position) ==
  LET s == NoteRequest(s0, "seek", position)
  IN
  IF Throws(s)
    THEN updatePlaybackState(s, [error |-> "Failed to seek in video"])
    ELSE LET s2 == IF s.player.playing
                     THEN updatePlaybackState(playerPause(s),
                                              [isPlaying |-> FALSE])
                     ELSE s
             s3 == updatePlaybackState(s2, [currentTime |-> position])
             s4 == setTimeout(s3, "seek", SEEK_DEBOUNCE, position)
         IN [s4 EXCEPT !.seekTimeout =
               Timer("seek", s.now + SEEK_DEBOUNCE, position)]

handleSeek(s0, position) ==
  LET s == NoteRequest(s0, "seek", position)
      s1 == IF s.seekTimeout # NoTimer
              THEN clearTimeout(s, s.seekTimeout) ELSE s
  IN IF Throws(s1)
       THEN updatePlaybackState(s1, [error |-> "Failed to seek in video"])
       ELSE LET s2 == IF s1.player.playing
                        THEN updatePlaybackState(playerPause(s1),
                                                 [isPlaying |-> FALSE])
                        ELSE s1
                s3 == updatePlaybackState(s2, [currentTime |-> position])
                s4 == setTimeout(s3, "seek", SEEK_DEBOUNCE, position)
            IN [s4 EXCEPT !.seekTimeout =
                  Timer("seek", s.now + SEEK_DEBOUNCE, position)]

\* The callback of the resume setTimeout of handleSeekWithPause.
resumePlayback(s) ==
  IF Throws(s) THEN Raise(s)
  ELSE updatePlaybackState(playerPlay(s), [isPlaying |-> TRUE])

\* Mutant: the commit of a seek with pause does not save the position.
seekWithPauseCommitNotSaving(s, position) ==
  IF Throws(s) THEN Raise(s)
  ELSE LET s1 == playerSetCurrentTime(s, position)
       IN IF s1.wasPlayingBeforeSeek
            THEN setTimeout(s1, "resume", RESUME_DELAY, 0)
            ELSE s1

\* The callback of handleSeekWithPause's setTimeout.
seekWithPauseCommit(s, position) ==
  IF Throws(s) THEN Raise(s)
  ELSE LET s1 == playerSetCurrentTime(s, position)
           s2 == [s1 EXCEPT !.positions =
                    savePlaybackPosition(@, s.props.videoId, position, s.now)]
       IN IF s2.wasPlayingBeforeSeek
            THEN setTimeout(s2, "resume", RESUME_DELAY, 0)
            ELSE s2

handleSeekWithPause(s0, position) ==
  LET s == NoteRequest(s0, "seekWithPause", position)
  IN
  IF Throws(s) THEN Raise(s)
  ELSE LET s1 == [s EXCEPT !.wasPlayingBeforeSeek = s.player.playing]
           s2 == IF s1.player.playing
                   THEN updatePlaybackState(playerPause(s1),
                                            [isPlaying |-> FALSE])
                   ELSE s1
           s3 == IF s2.seekTimeout # NoTimer
                   THEN clearTimeout(s2, s2.seekTimeout) ELSE s2
           s4 == updatePlaybackState(s3, [currentTime |-> position])
           s5 == setTimeout(s4, "seekWithPause", SEEK_PAUSE_DEBOUNCE, position)
       IN [s5 EXCEPT !.seekTimeout =
             Timer("seekWithPause", s.now + SEEK_PAUSE_DEBOUNCE, position)]

\* playbackState.currentTime and .duration are the values of the render that
\* created the callback.
handleSeekForward(s) ==
  handleSeekWithPause(
    s, Min(s.rendered.currentTime + SeekStep, s.rendered.duration))

\* Mutant: the backward step is not clamped at 0.
handleSeekBackwardUnclamped(s) ==
  handleSeekWithPause(s, s.rendered.currentTime - SeekStep)

handleSeekBackward(s) ==
  handleSeekWithPause(s, Max(s.rendered.currentTime - SeekStep, 0))

\* Mutant: retry leaves a pending seek alone.
handleRetryKeepingSeek(s) ==
  LET s2 == updatePlaybackState(
              s, [isLoading |-> TRUE, error |-> Undefined,
                  currentTime |-> 0, isPlaying |-> FALSE])
      isCurrentlyHLS == videoSource(s.props) = s.props.hlsUrl
      fallbackSource == IF isCurrentlyHLS THEN s.props.url ELSE s.props.hlsUrl
  IN IF Throws(s2)
       THEN updatePlaybackState(
              s2, [isLoading |-> FALSE,
                   error |-> "Failed to retry video playback"])
       ELSE playerReplace(s2, fallbackSource)

handleRetry(s) ==
  LET s1 == updatePlaybackState(
              s, [isLoading |-> TRUE, error |-> Undefined,
                  currentTime |-> 0, isPlaying |-> FALSE])
      s2 == IF s1.seekTimeout # NoTimer
              THEN clearTimeout(s1, s1.seekTimeout) ELSE s1
      isCurrentlyHLS == videoSource(s.props) = s.props.hlsUrl
      fallbackSource == IF isCurrentlyHLS THEN s.props.url ELSE s.props.hlsUrl
  IN IF Throws(s2)
       THEN updatePlaybackState(
              s2, [isLoading |-> FALSE,
                   error |-> "Failed to retry video playback"])
       ELSE playerReplace(s2, fallbackSource)

\* ------------------------------------------- useVideoHandler: status events
\* status.error: a string, an object with a message, or absent.
ErrorPayloads ==
  {[type |-> "string", message |-> "decoder failed"],
   [type |-> "string", message |-> ""],
   [type |-> "object", message |-> "network lost"],
   [type |-> "object", message |-> ""],
   [type |-> "undefined", message |-> ""]}
NoPayload == [type |-> "undefined", message |-> ""]

errorMessageOf(payload) ==
  IF payload.type = "string" THEN payload.message
  ELSE IF payload.type = "object" /\ payload.message # "" THEN payload.message
  ELSE "Video playback error occurred"

\* Mutant: an idle status flips isLoading.
onIdleTogglingLoading(s) ==
  updatePlaybackState(
    s, [isPlaying |-> FALSE, isLoading |-> ~s.ps.isLoading,
        error |-> Undefined])

\* case "idle".
onIdle(s) ==
  updatePlaybackState(
    s, [isPlaying |-> FALSE, isLoading |-> FALSE, error |-> Undefined])

\* Mutant: a loading status always turns isLoading on.
onLoadingAlways(s) ==
  IF Throws(s) THEN Raise(s)
  ELSE updatePlaybackState(s, [isLoading |-> TRUE, error |-> Undefined])

\* case "loading".
onLoading(s) ==
  IF Throws(s) THEN Raise(s)
  ELSE LET isActuallyLoading ==
             s.player.currentTime = 0 \/ ~s.player.playing
       IN updatePlaybackState(
            s, [isLoading |-> isActuallyLoading, error |-> Undefined])

\* The statusChange listener.
onStatusChange(s, status, payload) ==
  CASE status = "idle" -> onIdle(s)
    [] status = "loading" -> onLoading(s)
    [] status = "readyToPlay" ->
         LET s1 == IF s.loadingTimeout # NoTimer
                     THEN clearTimeout(s, s.loadingTimeout) ELSE s
         IN IF Throws(s1) THEN Raise(s1)
            ELSE updatePlaybackState(
                   s1, [isLoading |-> FALSE, duration |-> s1.player.duration,
                        error |-> Undefined])
    [] status = "error" ->
         updatePlaybackState(
           s, [isLoading |-> FALSE, isPlaying |-> FALSE,
               error |-> errorMessageOf(payload)])
    [] OTHER ->
         IF Throws(s) THEN Raise(s)
         ELSE updatePlaybackState(
                s, [isPlaying |-> s.player.playing,
                    duration |-> s.player.duration,
                    currentTime |-> s.player.currentTime])

\* The callback of the load-timeout setTimeout.
loadingTimedOut(s) ==
  IF Throws(s) THEN Raise(s)
  ELSE IF s.player.status = "loading"
    THEN updatePlaybackState(
           s, [error |-> "Video took too long to load. Please try again.",
               isLoading |-> FALSE])
    ELSE s

\* Mutant: every tick of a playing primitive saves the position.
progressTickSavingAlways(s) ==
  IF Throws(s) THEN Raise(s)
  ELSE IF s.player.playing
    THEN LET currentTime == s.player.currentTime
             s1 == updatePlaybackState(s, [currentTime |-> currentTime])
         IN [s1 EXCEPT !.positions =
               savePlaybackPosition(@, s.props.videoId, currentTime, s.now)]
    ELSE s

\* The callback of the progress setInterval.
progressTick(s) ==
  IF Throws(s) THEN Raise(s)
  ELSE IF s.player.playing
    THEN LET currentTime == s.player.currentTime
             s1 == updatePlaybackState(s, [currentTime |-> currentTime])
         IN IF (currentTime \div 1000) % 10 = 0
              THEN [s1 EXCEPT !.positions =
                      savePlaybackPosition(@, s.props.videoId, currentTime,
                                           s.now)]
              ELSE s1
    ELSE s

\* Mutant: applying the saved position also starts playback.
applySavedPositionAndPlay(s, savedPosition) ==
  IF Throws(s) THEN s
  ELSE updatePlaybackState(playerPlay(playerSetCurrentTime(s, savedPosition)),
                           [isPlaying |-> TRUE])

\* The callback of the saved-position setTimeout.
applySavedPosition(s, savedPosition) ==
  IF Throws(s) THEN s ELSE playerSetCurrentTime(s, savedPosition)

\* ----------------------------------------------------- useVideoHandler: effects
\* usePlaybackState's effect on [videoId].
restoreSavedPosition(s) ==
  LET savedPosition == s.positions[s.props.videoId]
  IN IF savedPosition # NoEntry /\ s.now - savedPosition.timestamp < DAY
       THEN updatePlaybackState(s, [currentTime |-> savedPosition.position])
       ELSE s

\* Mutant: the validation rejects an empty selected source.
validateSelectedSource(s) ==
  IF videoSource(s.props) = ""
    THEN updatePlaybackState(
           s, [error |-> "No valid video URL provided", isLoading |-> FALSE])
    ELSE s

\* "Validate video URLs on initialization".
validateUrls(s) ==
  IF s.props.url = "" /\ s.props.hlsUrl = ""
    THEN updatePlaybackState(
           s, [error |-> "No valid video URL provided", isLoading |-> FALSE])
    ELSE s

\* "Set up loading timeout after player is created": the effect body.
startLoadingTimeout(s) ==
  LET s1 == setTimeout(s, "loading", LOADING_TIMEOUT, 0)
  IN [s1 EXCEPT !.loadingTimeout = Timer("loading", s.now + LOADING_TIMEOUT, 0)]

\* The cleanup of the load-timeout effect.
stopLoadingTimeout(s) ==
  IF s.loadingTimeout # NoTimer THEN clearTimeout(s, s.loadingTimeout) ELSE s

\* "Load saved position when player is ready".
loadSavedPosition(s) ==
  IF s.player.status = "readyToPlay"
    THEN LET savedPosition ==
               getSavedPosition(s.positions, s.props.videoId, s.now)
             s1 == IF savedPosition > 0
                     THEN setTimeout(s, "savedPosition", SAVED_POSITION_DELAY,
                                     savedPosition)
                     ELSE s
         IN updatePlaybackState(s1, [isLoading |-> FALSE])
    ELSE s

\* What the closures created by a render capture.
Snapshot(s) ==
  [focusedControl |-> s.focusedControl, currentTime |-> s.ps.currentTime,
   duration |-> s.ps.duration, error |-> s.ps.error,
   status |-> s.player.status]

\* The first commit: every effect runs, in the order the hooks declare them.
Mount(s) ==
  LET s0 == [s EXCEPT !.dirty = FALSE, !.rendered = Snapshot(s),
                      !.session = "open"]
      s1 == restoreSavedPosition(s0)
      s2 == validateUrls(s1)
      s3 == startLoadingTimeout(s2)
      s4 == [s3 EXCEPT !.listening = TRUE]
      s5 == setTimeout(s4, "progress", PROGRESS_INTERVAL, 0)
  IN loadSavedPosition(s5)

\* A later commit: the closures are re-created and the TV listener is
\* re-subscribed; the effects on [player.status] run again when it changed.
Rerender(s) ==
  LET s0 == [s EXCEPT !.dirty = FALSE, !.rendered = Snapshot(s)]
  IN IF s.player.status # s.rendered.status
       THEN loadSavedPosition(startLoadingTimeout(stopLoadingTimeout(s0)))
       ELSE s0

\* The last commit: every cleanup runs and the player is released.
Unmount(s) ==
  LET s1 == stopLoadingTimeout(s)
      s2 == [s1 EXCEPT !.listening = FALSE,
                       !.timers = {t \in @ : t.kind # "progress"}]
      s3 == IF s2.seekTimeout # NoTimer
              THEN clearTimeout(s2, s2.seekTimeout) ELSE s2
      s4 == IF s3.loadingTimeout # NoTimer
              THEN clearTimeout(s3, s3.loadingTimeout) ELSE s3
      s5 == IF s4.hideControlsTimeout # NoTimer
              THEN clearTimeout(s4, s4.hideControlsTimeout) ELSE s4
  IN [s5 EXCEPT !.session = "closed", !.dirty = FALSE]

\* ------------------------------------------------------------- VideoPlayer
\* Mutant: closing pauses the primitive first.
onClosePausing(s) ==
  IF s.session = "open"
    THEN [playerPause(s) EXCEPT !.session = "closing", !.dirty = TRUE]
  ELSE s

\* onClose: the parent drops the playing video, which unmounts the player at
\* the next commit.
onClose(s) ==
  IF s.session = "open" THEN [s EXCEPT !.session = "closing", !.dirty = TRUE]
  ELSE s

\* Mutant: a pending hide is not cancelled before the next is started.
showControlsWithTimerKeepingPending(s) ==
  LET s1 == setShowControls(s, TRUE)
      s3 == setTimeout(s1, "hide", HIDE_CONTROLS_DELAY, 0)
  IN [s3 EXCEPT !.hideControlsTimeout =
        Timer("hide", s.now + HIDE_CONTROLS_DELAY, 0)]

showControlsWithTimer(s) ==
  LET s1 == setShowControls(s, TRUE)
      s2 == IF s1.hideControlsTimeout # NoTimer
              THEN clearTimeout(s1, s1.hideControlsTimeout) ELSE s1
      s3 == setTimeout(s2, "hide", HIDE_CONTROLS_DELAY, 0)
  IN [s3 EXCEPT !.hideControlsTimeout =
        Timer("hide", s.now + HIDE_CONTROLS_DELAY, 0)]

\* The callback of the auto-hide setTimeout.
hideControls(s) == setShowControls(s, FALSE)

EventTypes ==
  {"select", "playPause", "left", "right", "up", "down", "menu", "back",
   "longSelect"}

\* showControlsWithTimer() after a call: it runs only when the call did not
\* throw.
thenShowControls(s) == IF s.uncaught THEN s ELSE showControlsWithTimer(s)

\* Mutant: select on the progress bar toggles play/pause.
selectFocusedTogglingProgress(s, focus) ==
  CASE focus = "back" -> onClose(s)
    [] focus = "playPause" -> handlePlayPause(s)
    [] focus = "seekBackward" -> handleSeekBackward(s)
    [] focus = "seekForward" -> handleSeekForward(s)
    [] focus = "progress" -> handlePlayPause(s)
    [] OTHER -> s

\* case 'playPause': case 'select': the if-chain on focusedControl.
selectFocused(s, focus) ==
  CASE focus = "back" -> onClose(s)
    [] focus = "playPause" -> handlePlayPause(s)
    [] focus = "seekBackward" -> handleSeekBackward(s)
    [] focus = "seekForward" -> handleSeekForward(s)
    [] focus = "progress" -> s
    [] OTHER -> s

\* focusedControl and playbackState are the values of the render whose
\* handler is subscribed.
handleTVRemoteKey(s, eventType, eventKeyAction) ==
  LET focus == s.rendered.focusedControl
  IN IF eventKeyAction # 1 THEN s
     ELSE CASE eventType \in {"playPause", "select"} ->
                 thenShowControls(selectFocused(s, focus))
            [] eventType = "left" ->
                 thenShowControls(
                   IF focus = "progress"
                     THEN handleSeek(
                            s, Max(0, s.rendered.currentTime - SeekStep))
                     ELSE setFocusedControl(s, focusLeft(focus)))
            [] eventType = "right" ->
                 thenShowControls(
                   IF focus = "progress"
                     THEN handleSeek(
                            s, Min(s.rendered.duration,
                                   s.rendered.currentTime + SeekStep))
                     ELSE setFocusedControl(s, focusRight(focus)))
            [] eventType = "up" ->
                 showControlsWithTimer(setFocusedControl(s, focusUp(focus)))
            [] eventType = "down" ->
                 showControlsWithTimer(setFocusedControl(s, focusDown(focus)))
            [] eventType \in {"menu", "back"} -> onClose(s)
            [] OTHER -> showControlsWithTimer(s)

\* ------------------------------------------------------------ the session
Urls == {"", "https://x/video.mp4"}
HlsUrls == {"", "https://x/hls.m3u8"}
Durations == {0, MaxDurationSec * 1000}

Act(name, arg, n) == [name |-> name, arg |-> arg, n |-> n]

NeverWritten == [f \in Fields |-> <<>>]

\* The state after the component's first render, before any effect has run.
InitSession(p) ==
  /\ props = p
  /\ session = "mounting"
  /\ playbackState = InitialPlaybackState
  /\ playbackPositions = [v \in VideoIds |-> NoEntry]
  /\ player = [playing |-> FALSE, currentTime |-> 0, duration |-> 0,
               status |-> "idle", source |-> videoSource(p)]
  /\ timers = {}
  /\ seekTimeout = NoTimer
  /\ loadingTimeout = NoTimer
  /\ hideControlsTimeout = NoTimer
  /\ wasPlayingBeforeSeek = FALSE
  /\ focusedControl = "playPause"
  /\ showControls = TRUE
  /\ rendered = [focusedControl |-> "playPause", currentTime |-> 0,
                 duration |-> 0, error |-> Undefined, status |-> "idle"]
  /\ dirty = TRUE
  /\ faulty = FALSE
  /\ uncaught = FALSE
  /\ now = 0
  /\ issued = <<>>
  /\ lastAct = Act("init", "", 0)
  /\ written = NeverWritten
  /\ trail = <<>>
  /\ listening = FALSE
  /\ request = NoRequest
  /\ delivered = 0
  /\ statusEvents = 0

BothUrls ==
  [videoId |-> "v1", url |-> "https://x/video.mp4",
   hlsUrl |-> "https://x/hls.m3u8", isTV |-> TRUE]

\* React commits a pending update: render, cleanups, effects.
CommitOf(s) ==
  IF ~s.dirty THEN s
  ELSE CASE s.session = "mounting" -> Mount(s)
         [] s.session = "closing" -> Unmount(s)
         [] OTHER -> Rerender(s)

\* React commits the updates of a handler before the next event is delivered;
\* an effect that updates the state is followed by one more commit.
Settle(s) == CommitOf(CommitOf(s))

\* The step of an event whose handler leaves program state s.
Handled(s, act) ==
  /\ Become(Settle(s))
  /\ lastAct' = act
  /\ UNCHANGED <<written, trail>>
  /\ delivered' = IF act.name \in {"key", "hardwareBack", "retry"}
                    THEN delivered + 1 ELSE delivered
  /\ statusEvents' = IF act.name = "status" THEN statusEvents + 1
                     ELSE statusEvents

\* The commit of the first render: the mount effects run.
Commit ==
  /\ dirty
  /\ Handled(Cur, Act("commit", session, 0))

Idle == ~dirty

\* TVEventHandler delivers a remote event to the subscribed handler.
RemoteKey ==
  /\ Idle /\ session = "open"
  /\ delivered < MaxKeys
  /\ \E eventType \in EventTypes, eventKeyAction \in {0, 1} :
       Handled(handleTVRemoteKey(Cur, eventType, eventKeyAction),
               Act("key", eventType, eventKeyAction))

\* BackHandler 'hardwareBackPress' (Android).
HardwareBack ==
  /\ Idle /\ session = "open"
  /\ delivered < MaxKeys
  /\ Handled(onClose(Cur), Act("hardwareBack", "", 0))

\* "Try Again" on the error screen, shown when the rendered error is truthy.
TryAgain ==
  /\ Idle /\ session = "open"
  /\ delivered < MaxKeys
  /\ rendered.error \notin {Undefined, ""}
  /\ Handled(handleRetry(Cur), Act("retry", "", 0))

\* The primitive changes status (reporting duration d) and notifies the
\* listener.
StatusChangeTo(status, payload, d) ==
  LET s0 == [Cur EXCEPT !.player.status = status, !.player.duration = d]
  IN Handled(IF listening THEN onStatusChange(s0, status, payload) ELSE s0,
             Act("status", status, d))

\* Any status at any time.
StatusChange ==
  /\ Idle /\ session = "open"
  /\ statusEvents < MaxStatusEvents
  /\ \E status \in Statuses, payload \in ErrorPayloads, d \in Durations :
       /\ status # "error" => payload = NoPayload
       /\ status # "readyToPlay" => d = player.duration
       /\ StatusChangeTo(status, payload, d)

\* A source that loads without error: idle, then loading, then readyToPlay.
Loads ==
  /\ Idle /\ session = "open"
  /\ \/ /\ player.status = "idle"
        /\ StatusChangeTo("loading", NoPayload, player.duration)
     \/ /\ player.status = "loading"
        /\ \E d \in Durations : StatusChangeTo("readyToPlay", NoPayload, d)

\* A due timer runs its callback; the progress interval is re-armed.
TimerFires ==
  /\ Idle
  /\ \E t \in timers :
       /\ t.at = now
       /\ LET s0 == clearTimeout(Cur, t)
          IN Handled(
               CASE t.kind = "seek" -> seekCommit(s0, t.position)
                 [] t.kind = "seekWithPause" ->
                      seekWithPauseCommit(s0, t.position)
                 [] t.kind = "resume" -> resumePlayback(s0)
                 [] t.kind = "savedPosition" ->
                      applySavedPosition(s0, t.position)
                 [] t.kind = "loading" -> loadingTimedOut(s0)
                 [] t.kind = "hide" -> hideControls(s0)
                 [] t.kind = "progress" ->
                      progressTick(
                        setTimeout(s0, "progress", PROGRESS_INTERVAL, 0)),
               Act("timer", t.kind, t.position))

\* While it plays a ready source the primitive's position follows the clock.
Elapse(s, d) ==
  [s EXCEPT !.now = @ + d,
            !.player.currentTime =
               IF s.player.playing /\ s.player.status = "readyToPlay"
                 THEN Min(Max(s.player.duration, @), @ + d)
                 ELSE @]

NoTimerBefore(instant) == \A t \in timers : t.at >= instant

ShortTimers == {"seek", "seekWithPause", "resume", "savedPosition"}

\* Time passes by one quantum.  The clock is watched at this grain only while
\* a debounce, resume or settle timer is pending.
AdvanceQuantum ==
  /\ Idle
  /\ now + Quantum <= MaxFine
  /\ \E t \in timers : t.kind \in ShortTimers
  /\ NoTimerBefore(now + Quantum)
  /\ Handled(Elapse(Cur, Quantum), Act("advance", "quantum", Quantum))

\* Time passes until the next timer is due.
AdvanceToDeadline ==
  /\ Idle
  /\ \E t \in timers :
       /\ t.at > now
       /\ t.at <= MaxNow
       /\ NoTimerBefore(t.at)
       /\ Handled(Elapse(Cur, t.at - now),
                  Act("advance", "deadline", t.at - now))

\* A playback session of a source that loads normally, driven by the remote.
Init == InitSession(BothUrls)

Next ==
  \/ Commit
  \/ RemoteKey
  \/ HardwareBack
  \/ Loads
  \/ TimerFires
  \/ AdvanceQuantum
  \/ AdvanceToDeadline

Spec == Init /\ [][Next]_vars

\* ------------------------------------------------- the reducer on its own
\* The values a call may supply for each field.
FieldValues ==
  [isPlaying |-> <<FALSE, TRUE>>, currentTime |-> <<0, SeekStep>>,
   duration |-> <<0, MaxDurationSec * 1000>>, isLoading |-> <<FALSE, TRUE>>,
   error |-> <<Undefined, "Failed to seek in video">>]

\* The partial state that mentions the fields f with choice[f] # 0.
Partial(choice) ==
  [f \in {g \in Fields : choice[g] # 0} |-> FieldValues[f][choice[f]]]

InitReducer == InitSession(BothUrls)

\* updatePlaybackState(partial), called by any client of the hook.
UpdateCall ==
  /\ delivered < MaxUpdates
  /\ \E choice \in [Fields -> 0..2] :
       /\ Become(updatePlaybackState(Cur, Partial(choice)))
       /\ written' = [f \in Fields |->
                        IF choice[f] # 0 THEN <<FieldValues[f][choice[f]]>>
                        ELSE written[f]]
  /\ lastAct' = Act("update", "", 0)
  /\ delivered' = delivered + 1
  /\ UNCHANGED <<trail, statusEvents>>

NextReducer == UpdateCall

SpecReducer == InitReducer /\ [][NextReducer]_vars

\* --------------------------------------------------- the store on its own
StorePositions ==
  {SaveThreshold - 5000, SaveThreshold, SaveThreshold + 1,
   SaveThreshold + 15000}

ClockGrid ==
  {c \in {k * DAY + o : k \in 0..MaxStoreDays, o \in {-1, 0, 1}} : c >= 0}

\* The last two store operations, oldest first.
Logged(op) == IF trail = <<>> THEN <<op>> ELSE <<trail[Len(trail)], op>>

StoreOp(op, videoId, position, result, changed) ==
  [op |-> op, videoId |-> videoId, position |-> position, at |-> now,
   had |-> playbackPositions[videoId] # NoEntry,
   savedAt |-> playbackPositions[videoId].timestamp,
   result |-> result, changed |-> changed]

StoreUnchanged ==
  UNCHANGED <<props, session, playbackState, player, timers, seekTimeout,
              loadingTimeout, hideControlsTimeout, wasPlayingBeforeSeek,
              focusedControl, showControls, rendered, dirty, faulty, uncaught,
              issued, written, listening, request, delivered, statusEvents>>

InitStore == InitSession(BothUrls)

StoreSave ==
  \E videoId \in VideoIds, position \in StorePositions :
    /\ playbackPositions' =
         savePlaybackPosition(playbackPositions, videoId, position, now)
    /\ trail' = Logged(StoreOp("save", videoId, position, 0,
                               playbackPositions' # playbackPositions))
    /\ lastAct' = Act("save", videoId, position)
    /\ UNCHANGED now
    /\ StoreUnchanged

StoreGet ==
  \E videoId \in VideoIds :
    /\ trail' = Logged(StoreOp("get", videoId, 0,
                               getSavedPosition(playbackPositions, videoId,
                                                now),
                               FALSE))
    /\ lastAct' = Act("get", videoId, 0)
    /\ UNCHANGED <<playbackPositions, now>>
    /\ StoreUnchanged

StoreClear ==
  \E videoId \in VideoIds :
    /\ playbackPositions' = clearPlaybackPosition(playbackPositions, videoId)
    /\ trail' = Logged(StoreOp("clear", videoId, 0, 0,
                               playbackPositions' # playbackPositions))
    /\ lastAct' = Act("clear", videoId, 0)
    /\ UNCHANGED now
    /\ StoreUnchanged

\* Date.now() moves on.
StoreClock ==
  \E c \in ClockGrid :
    /\ c > now
    /\ now' = c
    /\ lastAct' = Act("clock", "", c)
    /\ UNCHANGED <<playbackPositions, trail>>
    /\ StoreUnchanged

NextStore ==
  \/ StoreSave
  \/ StoreGet
  \/ StoreClear
  \/ StoreClock

SpecStore == InitStore /\ [][NextStore]_vars

\* ------------------------------------------------ initialization, any props
AllProps ==
  [videoId : {"v1"}, url : Urls, hlsUrl : HlsUrls, isTV : BOOLEAN]

InitAnyProps == \E p \in AllProps : InitSession(p)

NextInit ==
  \/ Commit
  \/ StatusChange
  \/ TryAgain

SpecInit == InitAnyProps /\ [][NextInit]_vars

\* ---------------------------------------------- seeking across re-buffering
\* A press of one of the given remote keys, within a budget of user events.
PressOf(eventTypes, limit) ==
  /\ Idle /\ session = "open"
  /\ delivered < limit
  /\ \E eventType \in eventTypes :
       Handled(handleTVRemoteKey(Cur, eventType, 1), Act("key", eventType, 1))

\* The durations a source reports when it becomes ready again.
ReloadDurations == {SeekStep, MaxDurationSec * 1000}

\* The primitive loads, becomes ready, re-buffers and becomes ready again.
Lifecycle ==
  /\ Idle /\ session = "open"
  /\ statusEvents < MaxLifecycle
  /\ \/ /\ player.status = "idle"
        /\ StatusChangeTo("loading", NoPayload, player.duration)
     \/ /\ player.status = "loading"
        /\ \E d \in ReloadDurations :
             StatusChangeTo("readyToPlay", NoPayload, d)
     \/ /\ player.status = "readyToPlay"
        /\ StatusChangeTo("loading", NoPayload, player.duration)

\* The progress bar is driven while the source loads and re-buffers.
SeekKeys == PressOf({"down", "left", "right"}, MaxKeys)

NextRebuffer ==
  \/ Commit
  \/ Lifecycle
  \/ SeekKeys
  \/ TimerFires
  \/ AdvanceToDeadline

SpecRebuffer == Init /\ [][NextRebuffer]_vars

\* ------------------------------------------------- errors and recovery
\* The controls are used while the primitive reports any status, and the
\* error screen offers the retry.
ControlKeys == PressOf({"select", "right", "down"}, MaxRecoveryKeys)

NextRecovery ==
  \/ Commit
  \/ StatusChange
  \/ ControlKeys
  \/ TryAgain
  \/ TimerFires
  \/ AdvanceToDeadline

SpecRecovery == Init /\ [][NextRecovery]_vars

\* ------------------------------------------------- a source that stalls
\* The primitive reports loading, once, and never becomes ready.
StartsLoading ==
  /\ Idle /\ session = "open"
  /\ player.status = "idle"
  /\ StatusChangeTo("loading", NoPayload, player.duration)

\* Time passes until the next timer is due, over the span of a load timeout.
AwaitDeadline ==
  /\ Idle
  /\ \E t \in timers :
       /\ t.at > now
       /\ t.at <= MaxStallNow
       /\ NoTimerBefore(t.at)
       /\ Handled(Elapse(Cur, t.at - now),
                  Act("advance", "deadline", t.at - now))

NextStall ==
  \/ Commit
  \/ StartsLoading
  \/ TimerFires
  \/ AwaitDeadline

SpecStall == Init /\ [][NextStall]_vars

\* ------------------------------------------------- a primitive that throws
\* From some point on every access to the primitive throws.
Breaks ==
  /\ Idle /\ session = "open"
  /\ ~faulty
  /\ Handled([Cur EXCEPT !.faulty = TRUE], Act("fault", "", 0))

NextFaults ==
  \/ Commit
  \/ Loads
  \/ Breaks
  \/ ControlKeys
  \/ TryAgain
  \/ TimerFires
  \/ AdvanceToDeadline

SpecFaults == Init /\ [][NextFaults]_vars

\* ------------------------------------------------- auto-hide of the controls
\* The remote moves the focus and selects while nothing loads.
NavigationKeys == PressOf({"up", "down", "select", "longSelect"}, MaxHideKeys)

\* Time passes until the next timer is due, over the span of two hide windows.
AwaitHide ==
  /\ Idle
  /\ \E t \in timers :
       /\ t.at > now
       /\ t.at <= MaxHideNow
       /\ NoTimerBefore(t.at)
       /\ Handled(Elapse(Cur, t.at - now),
                  Act("advance", "deadline", t.at - now))

NextAutoHide ==
  \/ Commit
  \/ NavigationKeys
  \/ TimerFires
  \/ AwaitHide

SpecAutoHide == Init /\ [][NextAutoHide]_vars

\* ------------------------------------------------- closing and opening again
\* The program state of a new VideoPlayer instance after its first render:
\* every useState and useRef starts from its initial value, the position Map
\* of usePlaybackState included, and useVideoPlayer creates a new primitive.
FirstRender(p, clock) ==
  [props |-> p, session |-> "mounting", ps |-> InitialPlaybackState,
   positions |-> [v \in VideoIds |-> NoEntry],
   player |-> [playing |-> FALSE, currentTime |-> 0, duration |-> 0,
               status |-> "idle", source |-> videoSource(p)],
   timers |-> {}, seekTimeout |-> NoTimer, loadingTimeout |-> NoTimer,
   hideControlsTimeout |-> NoTimer, wasPlayingBeforeSeek |-> FALSE,
   focusedControl |-> "playPause", showControls |-> TRUE,
   rendered |-> [focusedControl |-> "playPause", currentTime |-> 0,
                 duration |-> 0, error |-> Undefined, status |-> "idle"],
   dirty |-> TRUE, faulty |-> FALSE, uncaught |-> FALSE, now |-> clock,
   issued |-> <<>>, listening |-> FALSE, request |-> NoRequest]

\* HomeScreen.handleVideoSelect on the video that was played before: once the
\* old instance is unmounted and its callbacks have run, the parent renders a
\* new VideoPlayer.  The step notes what the store of the closed instance
\* returned for the content.
handleVideoSelect ==
  /\ session = "closed"
  /\ timers = {}
  /\ Become(FirstRender(props, now))
  /\ lastAct' = Act("open", props.videoId,
                    getSavedPosition(playbackPositions, props.videoId, now))
  /\ UNCHANGED <<written, trail, delivered, statusEvents>>

\* The progress bar is driven and the player is left with menu.
SeekAndLeaveKeys == PressOf({"down", "right", "menu"}, MaxReopenKeys)

NextReopen ==
  \/ Commit
  \/ Loads
  \/ SeekAndLeaveKeys
  \/ handleVideoSelect
  \/ TimerFires
  \/ AdvanceToDeadline

SpecReopen == Init /\ [][NextReopen]_vars

\* ------------------------------------------------- both seek variants mixed
\* The transport controls and the progress bar are used in turn.
TransportKeys == PressOf({"select", "left", "right", "down"}, MaxMixedKeys)

NextMixedSeek ==
  \/ Commit
  \/ TransportKeys
  \/ TimerFires
  \/ AdvanceToDeadline

SpecMixedSeek == Init /\ [][NextMixedSeek]_vars

\* ------------------------------------------------- seeking around a tick
\* Playback is started, then seekForward and the progress bar are used.
PlayAndSeekKeys == PressOf({"select", "right", "down"}, MaxTickKeys)

\* Time passes by one quantum, up to just after the first progress tick.
AdvanceSteadily ==
  /\ Idle
  /\ now + Quantum <= MaxTickNow
  /\ NoTimerBefore(now + Quantum)
  /\ Handled(Elapse(Cur, Quantum), Act("advance", "quantum", Quantum))

NextProgress ==
  \/ Commit
  \/ Loads
  \/ PlayAndSeekKeys
  \/ TimerFires
  \/ AdvanceSteadily

SpecProgress == Init /\ [][NextProgress]_vars

\* ------------------------------------------------- seeking by steps
\* Both seek variants are driven while the source loads and re-buffers.
StepKeys == PressOf({"select", "left", "right", "down"}, MaxStepKeys)

NextSeekSteps ==
  \/ Commit
  \/ Lifecycle
  \/ StepKeys
  \/ TimerFires
  \/ AdvanceToDeadline

SpecSeekSteps == Init /\ [][NextSeekSteps]_vars

\* ------------------------------------------------- playing across ticks
\* Playback is stepped forward and toggled from the transport controls.
PlayKeys == PressOf({"select", "left", "right"}, MaxPlayKeys)

\* Time passes until the next timer is due, over two progress ticks.
AwaitTick ==
  /\ Idle
  /\ \E t \in timers :
       /\ t.at > now
       /\ t.at <= MaxPlayNow
       /\ NoTimerBefore(t.at)
       /\ Handled(Elapse(Cur, t.at - now),
                  Act("advance", "deadline", t.at - now))

NextPlayback ==
  \/ Commit
  \/ Loads
  \/ PlayKeys
  \/ TimerFires
  \/ AwaitTick

SpecPlayback == Init /\ [][NextPlayback]_vars

\* ------------------------------------------ re-buffering after a checkpoint
\* The progress bar is driven past the save threshold and back while the
\* source loads and re-buffers.
CheckpointKeys == PressOf({"down", "left", "right"}, MaxCheckpointKeys)

\* Time passes until the next timer is due, over two seek commits and the
\* settle delay of the saved position.
AwaitCheckpoint ==
  /\ Idle
  /\ \E t \in timers :
       /\ t.at > now
       /\ t.at <= MaxCheckpointNow
       /\ NoTimerBefore(t.at)
       /\ Handled(Elapse(Cur, t.at - now),
                  Act("advance", "deadline", t.at - now))

NextCheckpoint ==
  \/ Commit
  \/ Lifecycle
  \/ CheckpointKeys
  \/ TimerFires
  \/ AwaitCheckpoint

SpecCheckpoint == Init /\ [][NextCheckpoint]_vars

\* ------------------------------------------------ events delivered in a row
\* TVEventHandler delivers a press to the subscribed handler at once, whether
\* or not React has committed the updates of the event before: the handler is
\* the closure of the last render, and its updates wait for the next commit.
PressInARow ==
  /\ session = "open"
  /\ delivered < MaxBurstKeys
  /\ \E eventType \in {"select", "left", "right", "down"} :
       /\ Become(handleTVRemoteKey(Cur, eventType, 1))
       /\ lastAct' = Act("key", eventType, 1)
       /\ delivered' = delivered + 1
       /\ UNCHANGED <<written, trail, statusEvents>>

NextInARow ==
  \/ Commit
  \/ Loads
  \/ PressInARow
  \/ TimerFires
  \/ AdvanceToDeadline

SpecInARow == Init /\ [][NextInARow]_vars

\* ------------------------------------------------------- seek debouncing
PendingSeeks(pending) == {t \in pending : t.kind = "seek"}

\* The step runs the commit of a plain seek request.
SeekCommits ==
  /\ lastAct'.name = "timer" /\ lastAct'.arg = "seek"
  /\ \E t \in PendingSeeks(timers) : t.at = now /\ t \notin timers'

\* C1: in a burst of plain seek requests only the commit of the last request
\* is ever pending, so no earlier position can be committed or saved; that
\* commit runs 300 ms after the last request, sets the primitive's
\* currentTime once, to the last requested position, and saves no other
\* position.
C1_OnlyLastSeekCommits ==
  [][/\ \A t \in PendingSeeks(timers') :
          /\ request'.kind = "seek"
          /\ t = Timer("seek", request'.at + SEEK_DEBOUNCE, request'.position)
     /\ SeekCommits =>
          /\ request.kind = "seek" /\ request' = request
          /\ now = request.at + SEEK_DEBOUNCE
          /\ issued' = <<Command("setCurrentTime", request.position, "")>>
          /\ player'.currentTime = request.position
          /\ PendingSeeks(timers') = {}
          /\ playbackPositions' =
               IF request.position > SaveThreshold
                 THEN [playbackPositions EXCEPT ![props.videoId] =
                         [videoId |-> props.videoId,
                          position |-> request.position, timestamp |-> now]]
                 ELSE playbackPositions
    ]_vars

\* A burst of four requests, to 10, 20, 30 and 40 s, has committed and saved
\* 40 s, 300 ms after the last of them.
C1_Witness ==
  /\ lastAct = Act("timer", "seek", 4 * SeekStep)
  /\ request.n = 4
  /\ now = request.at + SEEK_DEBOUNCE
  /\ issued = <<Command("setCurrentTime", 4 * SeekStep, "")>>
  /\ playbackPositions[props.videoId].position = 4 * SeekStep

\* C2: when the primitive was playing at the first seekForward/seekBackward
\* request of a burst, the flag used by the commit is the one of that first
\* request, the commit of the last position schedules the resume 300 ms
\* later, and the resume issues play and sets isPlaying.
C2_BurstResumes ==
  /\ (\E t \in timers : t.kind = "seekWithPause") =>
       wasPlayingBeforeSeek = request.firstPlaying
  /\ (lastAct.name = "timer" /\ lastAct.arg = "seekWithPause"
      /\ request.firstPlaying) =>
       Timer("resume", now + RESUME_DELAY, 0) \in timers
  /\ (lastAct.name = "timer" /\ lastAct.arg = "resume") =>
       /\ issued = <<Command("play", 0, "")>>
       /\ playbackState.isPlaying

\* ----------------------------------------------------------- navigation
\* The step delivers a press of the given remote key to an open session.
Pressed(eventType) ==
  /\ session = "open"
  /\ delivered' = delivered + 1
  /\ lastAct' = Act("key", eventType, 1)

PreviousControl ==
  [back |-> "back", seekBackward |-> "back", playPause |-> "seekBackward",
   seekForward |-> "playPause"]

NextControl ==
  [back |-> "seekBackward", seekBackward |-> "playPause",
   playPause |-> "seekForward", seekForward |-> "seekForward"]

\* C3: with focus on a non-progress control a left press moves focus to the
\* previous control of [back, seekBackward, playPause, seekForward] and a
\* right press to the next one, staying at back and at seekForward.
C3_HorizontalNavigation ==
  [][focusedControl # "progress" =>
       /\ Pressed("left") => focusedControl' = PreviousControl[focusedControl]
       /\ Pressed("right") => focusedControl' = NextControl[focusedControl]
    ]_vars

\* Three keys from the initial playPause, the last one a left, end at back.
C3_Witness ==
  /\ lastAct = Act("key", "left", 1)
  /\ delivered = 3
  /\ focusedControl = "back"
  /\ session = "open"

\* C4: a down press moves any non-progress focus to progress and leaves
\* progress where it is; an up press moves progress to playPause and any
\* other focus to back.
C4_VerticalNavigation ==
  [][/\ Pressed("down") => focusedControl' = "progress"
     /\ (Pressed("up") /\ focusedControl = "progress") =>
          focusedControl' = "playPause"
     /\ (Pressed("up") /\ focusedControl # "progress") =>
          focusedControl' = "back"
    ]_vars

\* Down and then up: focus went to progress and came back to playPause.
C4_Witness ==
  /\ lastAct = Act("key", "up", 1)
  /\ delivered = 2
  /\ focusedControl = "playPause"
  /\ \E t \in timers : t.kind = "hide"

\* C5: a select press never changes focus and does what the focused control
\* stands for: back closes the session, playPause issues the one toggle
\* command, seekBackward and seekForward request a jump of 10 s, progress
\* issues nothing and leaves playback as it was.
C5_SelectActsOnFocus ==
  [][Pressed("select") =>
       /\ focusedControl' = focusedControl
       /\ focusedControl = "back" => session' = "closed" /\ issued' = <<>>
       /\ focusedControl # "back" => session' = "open"
       /\ focusedControl = "playPause" =>
            /\ issued' = <<Command(IF player.playing THEN "pause" ELSE "play",
                                   0, "")>>
            /\ player'.playing = ~player.playing
            /\ request' = request
       /\ focusedControl = "seekForward" =>
            /\ request'.kind = "seekWithPause"
            /\ request'.at = now
            /\ request'.position =
                 Min(playbackState.currentTime + SeekStep,
                     playbackState.duration)
       /\ focusedControl = "seekBackward" =>
            /\ request'.kind = "seekWithPause"
            /\ request'.at = now
            /\ request'.position = Max(playbackState.currentTime - SeekStep, 0)
       /\ focusedControl = "progress" =>
            /\ issued' = <<>>
            /\ player' = player
            /\ playbackState' = playbackState
            /\ request' = request
    ]_vars

\* Select on the progress bar while the source plays.
C5_Witness ==
  /\ lastAct = Act("key", "select", 1)
  /\ focusedControl = "progress"
  /\ player.playing
  /\ session = "open"

\* ------------------------------------------------------------- the reducer
InitialValues ==
  [isPlaying |-> FALSE, currentTime |-> 0, duration |-> 0, isLoading |-> TRUE,
   error |-> Undefined]

\* C6: after any sequence of update calls each field holds the value of the
\* last call that mentioned it (an explicit undefined error included), and a
\* field no call mentioned holds its initial value.
C6_LastWriteWins ==
  \A f \in Fields :
    playbackState[f] =
      IF written[f] = <<>> THEN InitialValues[f] ELSE written[f][1]

\* After at least two calls the error was last mentioned as undefined, the
\* position was moved, and isLoading was never mentioned.
C6_Witness ==
  /\ delivered >= 2
  /\ written.error = <<Undefined>>
  /\ written.currentTime = <<SeekStep>>
  /\ written.isLoading = <<>>
  /\ playbackState.error = Undefined
  /\ playbackState.currentTime = SeekStep
  /\ playbackState.isLoading

\* --------------------------------------------------------------- the store
\* The last operation is a get that directly follows a save of the same id,
\* with no time in between.
GetRightAfterSave ==
  /\ Len(trail) = 2
  /\ trail[1].op = "save" /\ trail[2].op = "get"
  /\ trail[1].videoId = trail[2].videoId
  /\ trail[1].at = trail[2].at

\* C7: a save of a position of at most 30 s persists nothing, so with no
\* earlier entry the get that follows returns 0; a save of a position above
\* 30 s followed at once by a get returns that position.
C7_SaveThreshold ==
  /\ \A i \in 1..Len(trail) :
       (trail[i].op = "save" /\ trail[i].position <= SaveThreshold) =>
         ~trail[i].changed
  /\ GetRightAfterSave =>
       /\ (trail[1].position <= SaveThreshold /\ ~trail[1].had) =>
            trail[2].result = 0
       /\ trail[1].position > SaveThreshold =>
            trail[2].result = trail[1].position

\* save(id, 30 s) on an empty store then get(id) gave 0.
C7_Witness ==
  /\ GetRightAfterSave
  /\ trail[1].position = SaveThreshold
  /\ ~trail[1].had
  /\ trail[2].result = 0

\* C8: get returns the stored position while the entry is less than 24 hours
\* old and 0 once it is 24 hours old or older, or when there is no entry; a
\* position returned before turns into 0 by the clock alone.
C8_Expiry ==
  \A i \in 1..Len(trail) :
    trail[i].op = "get" =>
      /\ (trail[i].had /\ trail[i].at - trail[i].savedAt < DAY) =>
           /\ trail[i].result > SaveThreshold
           /\ i = Len(trail) =>
                trail[i].result = playbackPositions[trail[i].videoId].position
      /\ (trail[i].had /\ trail[i].at - trail[i].savedAt >= DAY) =>
           trail[i].result = 0
      /\ ~trail[i].had => trail[i].result = 0

\* Two gets of the same entry with nothing but time in between: the first
\* returned the position, the second, exactly 24 hours after the save, 0.
C8_Witness ==
  /\ Len(trail) = 2
  /\ trail[1].op = "get" /\ trail[2].op = "get"
  /\ trail[1].videoId = trail[2].videoId
  /\ trail[1].had /\ trail[2].had
  /\ trail[1].savedAt = trail[2].savedAt
  /\ trail[1].result > 0
  /\ trail[2].at - trail[2].savedAt = DAY
  /\ trail[2].result = 0

\* ---------------------------------------------------------- initialization
\* The state right after the mount effects have run.
Initialized == session = "open" /\ lastAct = Act("commit", "mounting", 0)

EmptyUrlOffTV == props.url = "" /\ props.hlsUrl # "" /\ ~props.isTV

NoUrls == props.url = "" /\ props.hlsUrl = ""

NoValidUrl == "No valid video URL provided"

\* C9 as stated: with an empty url and an hlsUrl, off TV, initialization sets
\* the error "No valid video URL provided" and isLoading=false.
C9_EmptySourceIsAnError ==
  (Initialized /\ EmptyUrlOffTV) =>
    /\ playbackState.error = NoValidUrl
    /\ ~playbackState.isLoading

\* C9 amended: with an empty url and an hlsUrl, off TV, initialization records
\* no error and leaves isLoading=true, the primitive holding the empty url as
\* its source; the error is set exactly when both url and hlsUrl are empty.
C9_OnlyBothEmptyIsAnError ==
  Initialized =>
    /\ EmptyUrlOffTV =>
         /\ playbackState.error = Undefined
         /\ playbackState.isLoading
         /\ player.source = ""
    /\ playbackState.error = NoValidUrl <=> NoUrls

C9_Witness ==
  /\ Initialized
  /\ EmptyUrlOffTV
  /\ playbackState.isLoading
  /\ player.source = ""

\* C10: with both url and hlsUrl empty, initialization sets the error and
\* isLoading=false and does nothing else: no load-timeout timer is started
\* and no command is issued to the primitive.
C10_NothingAfterTheError ==
  (Initialized /\ NoUrls) =>
    /\ playbackState.error = NoValidUrl
    /\ ~playbackState.isLoading
    /\ loadingTimeout = NoTimer
    /\ \A t \in timers : t.kind # "loading"
    /\ issued = <<>>

\* ------------------------------------------------- resuming a saved position
\* The store holds a position for this content that is less than 24 h old.
RecentlySaved ==
  /\ playbackPositions[props.videoId] # NoEntry
  /\ playbackPositions[props.videoId].position > 0
  /\ now - playbackPositions[props.videoId].timestamp < DAY

\* The step handles the change of a loading primitive to readyToPlay.
BecomesReady ==
  /\ session = "open" /\ session' = "open"
  /\ player.status = "loading"
  /\ lastAct'.name = "status" /\ lastAct'.arg = "readyToPlay"
  /\ statusEvents' = statusEvents + 1

\* The step runs the callback of the saved-position timer.
SavedPositionApplies ==
  /\ session = "open"
  /\ lastAct'.name = "timer" /\ lastAct'.arg = "savedPosition"
  /\ \E t \in timers : t.kind = "savedPosition" /\ t.at = now /\ t \notin timers'

\* C11: when a loading primitive becomes ready and the store holds a recent
\* position p, the seek to p is scheduled after the settle delay, outside the
\* debounced seek path; when it runs it sets the primitive's currentTime to p,
\* issues neither play nor pause and leaves PlaybackState as it is.
C11_SavedPositionResumes ==
  [][/\ (BecomesReady /\ RecentlySaved) =>
          /\ Timer("savedPosition", now + SAVED_POSITION_DELAY,
                   playbackPositions[props.videoId].position) \in timers'
          /\ playbackState'.isPlaying = playbackState.isPlaying
          /\ issued' = <<>>
          /\ seekTimeout' = seekTimeout
     /\ SavedPositionApplies =>
          /\ issued' = <<Command("setCurrentTime", lastAct'.n, "")>>
          /\ player'.currentTime = lastAct'.n
          /\ player'.playing = player.playing
          /\ playbackState' = playbackState
    ]_vars

\* The position saved by a seek to 40 s was applied after a re-buffering.
C11_Witness ==
  /\ lastAct = Act("timer", "savedPosition", 4 * SeekStep)
  /\ session = "open"
  /\ player.status = "readyToPlay"
  /\ player.currentTime = 4 * SeekStep
  /\ issued = <<Command("setCurrentTime", 4 * SeekStep, "")>>

\* ------------------------------------------------------------ status events
\* The step handles a status event that repeats the previous step's event:
\* the same status with the same primitive duration.
RepeatsStatus(status) ==
  /\ session = "open"
  /\ lastAct.name = "status" /\ lastAct.arg = status
  /\ lastAct' = lastAct
  /\ statusEvents' = statusEvents + 1

\* C12: an idle status sets isPlaying=false, isLoading=false and clears the
\* error; a second consecutive idle, and a second consecutive readyToPlay
\* with the same duration, leave PlaybackState as the first left it.
C12_StatusIdempotent ==
  [][/\ (session = "open" /\ statusEvents' = statusEvents + 1
         /\ lastAct'.name = "status" /\ lastAct'.arg = "idle") =>
          /\ ~playbackState'.isPlaying
          /\ ~playbackState'.isLoading
          /\ playbackState'.error = Undefined
          /\ playbackState'.currentTime = playbackState.currentTime
          /\ playbackState'.duration = playbackState.duration
     /\ RepeatsStatus("idle") => playbackState' = playbackState
     /\ RepeatsStatus("readyToPlay") => playbackState' = playbackState
    ]_vars

\* A second idle in a row arrived while the primitive was playing.
C12_Witness ==
  /\ lastAct = Act("status", "idle", 0)
  /\ statusEvents = 2
  /\ player.status = "idle"
  /\ player.playing
  /\ ~playbackState.isPlaying
  /\ ~playbackState.isLoading
  /\ session = "open"

Retries ==
  /\ session = "open"
  /\ lastAct' = Act("retry", "", 0)
  /\ delivered' = delivered + 1

DebouncedSeeks(pending) ==
  {t \in pending : t.kind \in {"seek", "seekWithPause"}}

\* C14: retry leaves PlaybackState with no error, currentTime=0,
\* isPlaying=false and isLoading=true and leaves no debounced seek of either
\* variant pending, so a seek that was pending is committed neither to the
\* primitive nor to the store; a seek pending at any time is the last
\* request's.
C14_RetryCancelsSeek ==
  [][/\ Retries =>
          /\ playbackState'.error = Undefined
          /\ playbackState'.currentTime = 0
          /\ ~playbackState'.isPlaying
          /\ playbackState'.isLoading
          /\ DebouncedSeeks(timers') = {}
          /\ playbackPositions' = playbackPositions
          /\ \A i \in 1..Len(issued') : issued'[i].op = "replace"
     /\ \A t \in DebouncedSeeks(timers') :
          /\ t.kind = request'.kind
          /\ t.position = request'.position
          /\ t.at = request'.at + (IF t.kind = "seek" THEN SEEK_DEBOUNCE
                                   ELSE SEEK_PAUSE_DEBOUNCE)
    ]_vars

\* Retry ran while the commit of a plain seek was still to come.
C14_Witness ==
  /\ lastAct = Act("retry", "", 0)
  /\ session = "open"
  /\ request.kind = "seek"
  /\ now < request.at + SEEK_DEBOUNCE
  /\ DebouncedSeeks(timers) = {}
  /\ playbackState.isLoading
  /\ playbackState.error = Undefined

OtherSource(source) == IF source = props.hlsUrl THEN props.url ELSE props.hlsUrl

\* C15: every retry replaces the primitive's source with the other of url and
\* hlsUrl than the one it holds, so a second retry loads the original again.
C15_RetryAlternates ==
  [][(Retries /\ props.url # "" /\ props.hlsUrl # "") =>
       player'.source = OtherSource(player.source)
    ]_vars

\* ---------------------------------------------------------- the load timeout
LoadTimeoutError == "Video took too long to load. Please try again."

LoadTimeoutRan == lastAct = Act("timer", "loading", 0)

\* C16: a session whose source never becomes ready and never fails is ended
\* by the load timeout 30 s after initialization: the callback sets the
\* timeout error and isLoading=false, and isLoading=true is never seen past
\* the 30 s.
C16_LoadTimeoutEndsLoading ==
  session = "open" =>
    /\ LoadTimeoutRan =>
         /\ playbackState.error = LoadTimeoutError
         /\ ~playbackState.isLoading
    /\ playbackState.isLoading => now <= LOADING_TIMEOUT

\* C17: once readyToPlay has been handled no load-timeout timer is pending,
\* and the load-timeout error is not raised while the source stays loaded.
C17_ReadyCancelsLoadTimeout ==
  (session = "open" /\ player.status = "readyToPlay") =>
    /\ \A t \in timers : t.kind # "loading"
    /\ loadingTimeout = NoTimer
    /\ playbackState.error # LoadTimeoutError

\* ------------------------------------------------------------------ teardown
\* C18: after teardown no timer of the session is left to run, and no timer
\* callback runs.
C18_NoTimerAfterTeardown ==
  session = "closed" =>
    /\ timers = {}
    /\ lastAct.name # "timer"

\* -------------------------------------------------------------------- faults
\* The last step ran a driver operation: playPause, a seek of either variant
\* and its timers, or retry.
DriverOperationRan ==
  \/ lastAct.name = "retry"
  \/ lastAct.name = "key" /\ lastAct.n = 1
     /\ lastAct.arg \in {"select", "playPause", "left", "right"}
  \/ lastAct.name = "timer"
     /\ lastAct.arg \in {"seek", "seekWithPause", "resume"}

\* C19: no fault of the primitive leaves a driver operation: a handler or
\* timer callback that met a throwing primitive has returned normally.
C19_FaultsAreCaught ==
  (session = "open" /\ DriverOperationRan) => ~uncaught

\* ------------------------------------------------------------ position range
\* C20: whenever the duration is known and positive the position lies within
\* it.
C20_PositionWithinDuration ==
  (session = "open" /\ playbackState.duration > 0) =>
    /\ 0 <= playbackState.currentTime
    /\ playbackState.currentTime <= playbackState.duration

\* --------------------------------------------------------- error and loading
\* C21: no PlaybackState has isLoading=true together with an error: whatever
\* records an error leaves isLoading=false, a play/pause or seek failure
\* while the source is still loading included.
C21_ErrorExcludesLoading ==
  session = "open" =>
    ~(playbackState.isLoading /\ playbackState.error # Undefined)

\* ------------------------------------------------------------------ closing
\* The step delivers a hardware back-button press to an open session.
HardwareBackPressed ==
  /\ session = "open"
  /\ delivered' = delivered + 1
  /\ lastAct' = Act("hardwareBack", "", 0)

HideTimers(pending) == {t \in pending : t.kind = "hide"}

\* The remote events that show the controls: all but menu and back.
ShowingKeys == EventTypes \ {"menu", "back"}

\* The step runs the callback of the hide timer that is due.
HideRuns ==
  /\ lastAct' = Act("timer", "hide", 0)
  /\ HideTimers(timers) = {Timer("hide", now, 0)}

\* C23: a handled remote event makes the controls visible and leaves exactly
\* one hide pending, due 3 s after the event; at most one hide is pending at
\* any time, a pending hide is replaced or removed only by a remote event, by
\* its own callback or by teardown, and the controls are hidden only by the
\* callback of the pending hide at its due time, that is 3 s after the most
\* recent event.
C23_AutoHideLatestWins ==
  [][/\ \A eventType \in ShowingKeys :
          (Pressed(eventType) /\ session' = "open") =>
            /\ showControls'
            /\ HideTimers(timers') =
                 {Timer("hide", now + HIDE_CONTROLS_DELAY, 0)}
            /\ hideControlsTimeout' =
                 Timer("hide", now + HIDE_CONTROLS_DELAY, 0)
     /\ Cardinality(HideTimers(timers')) <= 1
     /\ (showControls /\ ~showControls') => HideRuns
     /\ HideTimers(timers') # HideTimers(timers) =>
          \/ \E eventType \in ShowingKeys : Pressed(eventType)
          \/ HideRuns
          \/ session' = "closed"
    ]_vars

\* Two events, the second 1 s after the player opened: the hide of the first
\* never ran, and the controls were hidden 3 s after the second.
C23_Witness ==
  /\ lastAct = Act("timer", "hide", 0)
  /\ delivered = 2
  /\ now = PROGRESS_INTERVAL + HIDE_CONTROLS_DELAY
  /\ ~showControls
  /\ HideTimers(timers) = {}
  /\ session = "open"

\* C24: whenever the controls of an open player are visible a hide is due
\* within 3 s, so that 3 s without input hide them; this holds right after
\* the player opens, before any remote event.
C24_ControlsHideWhenIdle ==
  (session = "open" /\ showControls) =>
    \E t \in HideTimers(timers) : t.at <= now + HIDE_CONTROLS_DELAY

\* ---------------------------------------------------- resume across sessions
\* C25: a position saved for a content during one playback session is what
\* get returns for that content in the next session, after the player was
\* closed and opened again within 24 hours.
C25_ResumesAcrossSessions ==
  lastAct.name = "open" =>
    getSavedPosition(playbackPositions, props.videoId, now) = lastAct.n

\* ------------------------------------------------------- the error screen
\* The error screen is rendered: the rendered state has a truthy error.
ErrorShown == rendered.error \notin {Undefined, ""}

\* C26: while PlaybackState holds an error and the error screen is shown, a
\* press of select, playPause or a direction issues no command to the
\* primitive and requests no seek.
C26_ErrorSuspendsControls ==
  [][\A eventType \in {"select", "playPause", "left", "right", "up", "down"} :
       (Pressed(eventType) /\ ErrorShown
        /\ playbackState.error = rendered.error) =>
         /\ issued' = <<>>
         /\ request' = request
    ]_vars

\* ------------------------------------------------------------ the plain seek
\* The step delivers a left or right press to the progress bar: a plain seek
\* request.
PlainSeekPressed ==
  /\ Pressed("left") \/ Pressed("right")
  /\ focusedControl = "progress"

\* C27: a plain seek requested while the primitive plays pauses it and sets
\* isPlaying=false; the request and its commit issue no play; and after the
\* request nothing is left pending that resumes playback, so that it stays
\* paused until the user toggles play/pause.
C27_PlainSeekStaysPaused ==
  [][/\ (PlainSeekPressed /\ player.playing) =>
          /\ issued' = <<Command("pause", 0, "")>>
          /\ ~player'.playing
          /\ ~playbackState'.isPlaying
          /\ \A t \in timers' : t.kind # "resume"
     /\ SeekCommits =>
          /\ \A i \in 1..Len(issued') : issued'[i].op # "play"
          /\ player'.playing = player.playing
          /\ playbackState'.isPlaying = playbackState.isPlaying
    ]_vars

\* --------------------------------------------------- the store: overwriting
\* C28: a save of a position of at most 30 s leaves the store as it is, also
\* when the content has an entry, so that get returns what it returned
\* before; a save of a position above 30 s replaces position and timestamp of
\* the content's entry; the entries of other contents are never touched.
C28_SaveKeepsOrOverwrites ==
  [][\A videoId \in VideoIds, position \in StorePositions :
       lastAct' = Act("save", videoId, position) =>
         /\ position <= SaveThreshold =>
              /\ playbackPositions' = playbackPositions
              /\ getSavedPosition(playbackPositions', videoId, now') =
                   getSavedPosition(playbackPositions, videoId, now)
         /\ position > SaveThreshold =>
              playbackPositions'[videoId] =
                [videoId |-> videoId, position |-> position, timestamp |-> now]
         /\ \A other \in VideoIds \ {videoId} :
              playbackPositions'[other] = playbackPositions[other]
    ]_vars

\* A save of exactly 30 s arrived after the clock had moved on from a save of
\* 45 s for the same content, and left that entry and the other content's.
C28_Witness ==
  /\ lastAct = Act("save", "v1", SaveThreshold)
  /\ now > 0
  /\ playbackPositions["v1"] =
       [videoId |-> "v1", position |-> SaveThreshold + 15000, timestamp |-> 0]
  /\ playbackPositions["v2"] # NoEntry

\* ------------------------------------------------- persisting a seek commit
\* The step runs the commit of a debounced seek of either variant.
DebouncedSeekCommits ==
  /\ session = "open"
  /\ lastAct'.name = "timer" /\ lastAct'.arg \in {"seek", "seekWithPause"}
  /\ \E t \in DebouncedSeeks(timers) :
       /\ t.kind = lastAct'.arg /\ t.position = lastAct'.n
       /\ t.at = now /\ t \notin timers'

\* What get returns for the content of the session.
SavedPositionOf(positions, clock) ==
  getSavedPosition(positions, props.videoId, clock)

\* C29 as stated: right after a debounced seek has committed a position p to
\* the primitive, get returns p, whatever p is.
C29_CommitPersists ==
  [][DebouncedSeekCommits =>
       /\ player'.currentTime = lastAct'.n
       /\ SavedPositionOf(playbackPositions', now') = lastAct'.n
    ]_vars

\* C29 amended: the commit of a debounced seek of either variant sets the
\* primitive's position to p and passes p to the store's save: right after
\* it get returns p when p is above 30 s, and what it returned before the
\* commit when p is at most 30 s.
C29_CommitPersistsAboveThreshold ==
  [][DebouncedSeekCommits =>
       /\ player'.currentTime = lastAct'.n
       /\ SavedPositionOf(playbackPositions', now') =
            IF lastAct'.n > SaveThreshold THEN lastAct'.n
            ELSE SavedPositionOf(playbackPositions, now)
    ]_vars

\* Four presses of select on seekForward were committed as one seek to 40 s,
\* which get returns.
C29_Witness ==
  /\ lastAct = Act("timer", "seekWithPause", 4 * SeekStep)
  /\ session = "open"
  /\ player.currentTime = 4 * SeekStep
  /\ SavedPositionOf(playbackPositions, now) = 4 * SeekStep

\* ------------------------------------------------- optimistic seek feedback
\* C30: from a seek request for position p until its debounced commit runs,
\* PlaybackState.currentTime is p, whatever progress tick or status event
\* arrives in between; the request itself issues no seek to the primitive.
C30_OptimisticPositionHolds ==
  session = "open" =>
    /\ \A t \in DebouncedSeeks(timers) :
         playbackState.currentTime = t.position
    /\ (lastAct.name = "key" /\ DebouncedSeeks(timers) # {}) =>
         \A i \in 1..Len(issued) : issued[i].op # "setCurrentTime"

\* ------------------------------------------------------------- seek steps
\* The step requests a seek, of the given variant, for the given position.
Requests(kind, position) ==
  /\ request'.kind = kind
  /\ request'.at = now
  /\ request'.position = position
  /\ playbackState'.currentTime = position

StepForward ==
  Min(playbackState.currentTime + SeekStep, playbackState.duration)

StepBackward == Max(playbackState.currentTime - SeekStep, 0)

\* The positions the four seek navigations request, and the focus they leave.
SeekStepsAsComputed ==
  /\ (Pressed("select") /\ focusedControl = "seekForward") =>
       Requests("seekWithPause", StepForward)
  /\ (Pressed("select") /\ focusedControl = "seekBackward") =>
       Requests("seekWithPause", StepBackward)
  /\ (Pressed("right") /\ focusedControl = "progress") =>
       /\ Requests("seek", StepForward)
       /\ focusedControl' = "progress"
  /\ (Pressed("left") /\ focusedControl = "progress") =>
       /\ Requests("seek", StepBackward)
       /\ focusedControl' = "progress"

\* The step requests a seek by navigation.
SeekRequested ==
  \/ Pressed("select") /\ focusedControl \in {"seekForward", "seekBackward"}
  \/ (Pressed("left") \/ Pressed("right")) /\ focusedControl = "progress"

TickRuns ==
  /\ session = "open"
  /\ lastAct' = Act("timer", "progress", 0)
  /\ Timer("progress", now, 0) \in timers

\* The position is at a checkpoint: its whole second is a multiple of 10.
AtCheckpoint(position) == (position \div 1000) % 10 = 0

\* C32: a tick while the primitive plays sets PlaybackState.currentTime to
\* the primitive's position, changes no other field, and saves the position
\* exactly when its whole second is a multiple of 10 and it is above 30 s; a
\* tick while the primitive does not play changes neither PlaybackState nor
\* the store.  No tick issues a command to the primitive.
C32_TickRefreshesAndCheckpoints ==
  [][TickRuns =>
       /\ issued' = <<>>
       /\ player.playing =>
            /\ playbackState' =
                 [playbackState EXCEPT !.currentTime = player.currentTime]
            /\ playbackPositions' =
                 IF AtCheckpoint(player.currentTime)
                    /\ player.currentTime > SaveThreshold
                   THEN [playbackPositions EXCEPT ![props.videoId] =
                           [videoId |-> props.videoId,
                            position |-> player.currentTime,
                            timestamp |-> now]]
                   ELSE playbackPositions
       /\ ~player.playing =>
            /\ playbackState' = playbackState
            /\ playbackPositions' = playbackPositions
    ]_vars

\* A tick found the playing primitive at 30.9 s and saved that position.
C32_Witness ==
  /\ lastAct = Act("timer", "progress", 0)
  /\ session = "open"
  /\ player.playing
  /\ player.currentTime = 3 * SeekStep + 900
  /\ playbackState.currentTime = 3 * SeekStep + 900
  /\ playbackPositions[props.videoId] =
       [videoId |-> props.videoId, position |-> 3 * SeekStep + 900,
        timestamp |-> now]

\* ------------------------------------------------------ the error status
\* The step handles the given status event in an open session.
StatusHandled(status) ==
  /\ session = "open"
  /\ listening
  /\ lastAct'.name = "status" /\ lastAct'.arg = status
  /\ statusEvents' = statusEvents + 1

\* C33: an error status sets isLoading=false and isPlaying=false and leaves a
\* non-empty error message, so that the error is always visible.
C33_ErrorStatusIsVisible ==
  [][StatusHandled("error") =>
       /\ ~playbackState'.isLoading
       /\ ~playbackState'.isPlaying
       /\ playbackState'.error \notin {Undefined, ""}
    ]_vars

\* ---------------------------------------------------- the loading status
\* C34: a loading status sets isLoading to whether the primitive starts
\* afresh, that is its position is 0 or it does not play, clears the error
\* and changes nothing else; received while the primitive plays at a
\* position above 0 it leaves isLoading off.
C34_LoadingOnlyWhenFresh ==
  [][StatusHandled("loading") =>
       /\ playbackState' =
            [playbackState EXCEPT
               !.isLoading = player.currentTime = 0 \/ ~player.playing,
               !.error = Undefined]
       /\ (player.playing /\ player.currentTime > 0) =>
            ~playbackState'.isLoading
    ]_vars

\* The source re-buffers while it plays at 10 s: isLoading stays off.
C34_Witness ==
  /\ lastAct.name = "status" /\ lastAct.arg = "loading"
  /\ session = "open"
  /\ player.status = "loading"
  /\ player.playing
  /\ player.currentTime = SeekStep
  /\ ~playbackState.isLoading

\* ------------------------------------------------------- a faulty playPause
\* The step selects the playPause control while the primitive throws, in a
\* session that has rendered the primitive's current status, so that the
\* render after the handler runs no effect of a status change.
FaultyPlayPause ==
  /\ Pressed("select")
  /\ focusedControl = "playPause"
  /\ faulty
  /\ rendered.status = player.status

\* C35: a fault of the primitive during playPause is caught: the error
\* becomes "Failed to control video playback", isPlaying, currentTime,
\* duration and isLoading keep their values, and the primitive receives no
\* command.
C35_PlayPauseFaultKeepsState ==
  [][FaultyPlayPause =>
       /\ ~uncaught'
       /\ playbackState' =
            [playbackState EXCEPT !.error = "Failed to control video playback"]
       /\ issued' = <<>>
       /\ player' = player
    ]_vars

\* The primitive broke while it played: the failed playPause leaves isPlaying
\* on.
C35_Witness ==
  /\ lastAct = Act("key", "select", 1)
  /\ session = "open"
  /\ faulty
  /\ focusedControl = "playPause"
  /\ playbackState.error = "Failed to control video playback"
  /\ playbackState.isPlaying
  /\ playbackState.duration > 0

\* -------------------------------------------------------- the focus domain
\* The step delivers the press of a directional key.
DirectionPressed ==
  \/ Pressed("left")
  \/ Pressed("right")
  \/ Pressed("up")
  \/ Pressed("down")

\* C36: the focus is always one of back, seekBackward, playPause, seekForward
\* and progress; it is playPause when the session opens, and only the press of
\* a directional key changes it.
C36_FocusStaysOnAControl ==
  /\ focusedControl = "playPause"
  /\ [][/\ focusedControl' \in FocusTargets
        /\ session = "mounting" => focusedControl' = "playPause"
        /\ focusedControl' # focusedControl => DirectionPressed
       ]_vars

\* Right was pressed at the end of the control list: the focus stays on
\* seekForward.
C36_Witness ==
  /\ session = "open"
  /\ lastAct = Act("key", "right", 1)
  /\ delivered >= 3
  /\ focusedControl = "seekForward"
  /\ request.kind = "none"

\* --------------------------------------------- the resume applied only once
\* The source of the session has been ready before: the primitive knows its
\* duration.
ReadyBefore == player.duration > 0

\* C37: the seek to the saved position is applied at most once per loaded
\* source: after the source became ready again, following a re-buffering, the
\* callback of the saved-position timer does not move the primitive to the
\* checkpointed position.
C37_ResumeOncePerSource ==
  [][(SavedPositionApplies /\ ReadyBefore /\ statusEvents > 2) =>
       player'.currentTime = player.currentTime
    ]_vars

\* ------------------------------------------------ retry with a single URL
\* Exactly one of url and hlsUrl is given.
OneUrl == (props.url = "") # (props.hlsUrl = "")

\* C38: retry never replaces the source of the primitive with an empty URL:
\* with only one of url and hlsUrl given it reloads the available URL or
\* records an error, and it does not leave the session loading an empty
\* source.
C38_RetryKeepsASource ==
  [][(Retries /\ OneUrl) =>
       /\ \A i \in DOMAIN issued' :
            issued'[i].op = "replace" => issued'[i].source # ""
       /\ player'.source # "" \/ playbackState'.error # Undefined
       /\ ~(playbackState'.isLoading /\ player'.source = "")
    ]_vars

\* ------------------------------------------- presses delivered back-to-back
\* C39: a press is applied to the state its predecessors left, also when it is
\* delivered before the render that follows them: left off the progress bar
\* moves the focus one control to the left of the current focus, and a
\* right on the progress bar and a select on seekForward request the step
\* after the current position.
C39_PressesApplyToLatestState ==
  [][/\ (Pressed("left") /\ focusedControl # "progress") =>
          focusedControl' = focusLeft(focusedControl)
     /\ (Pressed("right") /\ focusedControl = "progress") =>
          Requests("seek", Min(playbackState.currentTime + SeekStep,
                               playbackState.duration))
     /\ (Pressed("select") /\ focusedControl = "seekForward") =>
          Requests("seekWithPause",
                   Min(playbackState.currentTime + SeekStep,
                       playbackState.duration))
    ]_vars

\* ----------------------------------------------- staying stopped after a stop
\* The last step was a retry, an error status or an idle status, each of which
\* sets isPlaying=false.
Stopped ==
  /\ session = "open"
  /\ \/ lastAct.name = "retry"
     \/ lastAct.name = "status" /\ lastAct.arg \in {"error", "idle"}

\* The step runs the callback of a resume timer.
ResumeRuns ==
  /\ lastAct' = Act("timer", "resume", 0)
  /\ \E t \in timers : t.kind = "resume" /\ t.at = now /\ t \notin timers'

\* C40: a retry, an error status and an idle status leave isPlaying=false, and
\* a resume timer of a seekForward or seekBackward requested before them,
\* which runs next, neither issues play nor sets isPlaying=true.
C40_StopOutlivesResume ==
  [][/\ (Retries \/ StatusHandled("error") \/ StatusHandled("idle")) =>
          ~playbackState'.isPlaying
     /\ (Stopped /\ ResumeRuns) =>
          /\ \A i \in DOMAIN issued' : issued'[i].op # "play"
          /\ ~player'.playing
          /\ ~playbackState'.isPlaying
    ]_vars

====
